---- MODULE Spec2Model ----
(***************************************************************************)
(* Adaptive recipe cleaning (recipes/adaptive_cleaner.py) on top of the    *)
(* LLM cleaner (recipes/recipe_cleaner.py).                                *)
(*                                                                         *)
(* Text is a sequence of words; a value is a record [k, w] where k = "s"   *)
(* is a Python str and k = "n" a non-string (a number), so that str() and  *)
(* re.sub on a non-string are modelled by what they do.  A compiled        *)
(* pattern is the set of lower-case words it matches (re.IGNORECASE).      *)
(*                                                                         *)
(* Nested lists are heap cells: a recipe dict holds references to its      *)
(* ingredient and instruction lists, so dict.copy() (shallow) and          *)
(* json.loads(json.dumps(..)) (deep) differ as they do in Python.          *)
(*                                                                         *)
(* adaptive_cleaner.py imports RecipeCleaner from recipe_cleaner.py, which *)
(* only defines RecipeCleaningService; the cleaner is modelled by          *)
(* RecipeCleaningService.clean_recipe plus the system_prompt attribute the *)
(* orchestrator reads and writes.                                          *)
(***************************************************************************)
EXTENDS Integers, Sequences, FiniteSets, TLC

\* ------------------------------------------------------------------ bounds
MaxInvocations == 2

MaxFaults == 1

\* ------------------------------------------------------------------- text
Str(ws) == [k |-> "s", w |-> ws]

NonStr(ws) == [k |-> "n", w |-> ws]

\* str(x)
PyStr(v) == [k |-> "s", w |-> v.w]

\* truthiness of a field value (empty string is falsy)
Truthy(v) == v.w # <<>>

\* str.lower() on the vocabulary, used for re.IGNORECASE matching
Lower(w) ==
  CASE w = "Tablespoons" -> "tablespoons"
    [] w = "Butter" -> "butter"
    [] w = "Recipe" -> "recipe"
    [] w = "Preheat" -> "preheat"
    [] w = "Pre-heat" -> "pre-heat"
    [] w = "Cake" -> "cake"
    [] w = "Oven" -> "oven"
    [] w = "Yummy" -> "yummy"
    [] w = "Tasty" -> "tasty"
    [] w = "EVOO" -> "evoo"
    [] OTHER -> w

\* str.capitalize() on the vocabulary
Capitalize(w) ==
  CASE Lower(w) = "tablespoons" -> "Tablespoons"
    [] Lower(w) = "butter" -> "Butter"
    [] Lower(w) = "recipe" -> "Recipe"
    [] Lower(w) = "preheat" -> "Preheat"
    [] Lower(w) = "pre-heat" -> "Pre-heat"
    [] Lower(w) = "cake" -> "Cake"
    [] Lower(w) = "oven" -> "Oven"
    [] Lower(w) = "yummy" -> "Yummy"
    [] Lower(w) = "tasty" -> "Tasty"
    [] OTHER -> w

Min(S) == CHOOSE x \in S : \A y \in S : x <= y

\* ------------------------------------------------------------- rule store
Categories == <<"general", "ingredient", "instruction", "description">>

\* pattern.sub(replacement, text) on a str: every matching word is replaced
RECURSIVE SubWords(_, _, _)
SubWords(pat, repl, ws) ==
  IF ws = <<>> THEN <<>>
  ELSE (IF Lower(Head(ws)) \in pat.words THEN repl ELSE <<Head(ws)>>)
       \o SubWords(pat, repl, Tail(ws))

PatternSub(rule, v) == Str(SubWords(rule.pattern, rule.replacement, v.w))

\* variant: only the names are rewritten
ApplyToIngredientsNameOnly(rule, lst) ==
  LET bad  == {i \in 1..Len(lst) : lst[i].name.k # "s"}
      stop == IF bad = {} THEN Len(lst) + 1 ELSE Min(bad)
  IN [list |-> [i \in 1..Len(lst) |->
                  IF i < stop
                  THEN [lst[i] EXCEPT !.name = PatternSub(rule, @)]
                  ELSE lst[i]],
      raised |-> bad # {}]

\* the ingredient branch: names and quantities are rewritten in place, in
\* list order, until a non-string name makes pattern.sub raise TypeError
ApplyToIngredients(rule, lst) ==
  LET bad  == {i \in 1..Len(lst) : lst[i].name.k # "s"}
      stop == IF bad = {} THEN Len(lst) + 1 ELSE Min(bad)
  IN [list |-> [i \in 1..Len(lst) |->
                  IF i < stop
                  THEN [lst[i] EXCEPT !.name = PatternSub(rule, @),
                                      !.quantity = PatternSub(rule, PyStr(@))]
                  ELSE lst[i]],
      raised |-> bad # {}]

\* the instruction branch
ApplyToInstructions(rule, lst) ==
  LET bad  == {i \in 1..Len(lst) : lst[i].description.k # "s"}
      stop == IF bad = {} THEN Len(lst) + 1 ELSE Min(bad)
  IN [list |-> [i \in 1..Len(lst) |->
                  IF i < stop
                  THEN [lst[i] EXCEPT !.description = PatternSub(rule, @)]
                  ELSE lst[i]],
      raised |-> bad # {}]

\* _apply_rule_to_data without the counter write: d is a recipe dict whose
\* ing / inst fields are references into the heap hp.  A 'general' rule
\* matches none of the three branches.
ApplyRuleToData(d, hp, rule) ==
  IF ~rule.pattern.valid
  THEN [data |-> d, heap |-> hp, raised |-> TRUE]
  ELSE
    CASE rule.category = "ingredient" ->
           LET r == ApplyToIngredients(rule, hp[d.ing])
           IN [data |-> d, heap |-> [hp EXCEPT ![d.ing] = r.list],
               raised |-> r.raised]
      [] rule.category = "instruction" ->
           LET r == ApplyToInstructions(rule, hp[d.inst])
           IN [data |-> d, heap |-> [hp EXCEPT ![d.inst] = r.list],
               raised |-> r.raised]
      [] rule.category = "description" ->
           IF d.description.k = "s"
           THEN [data |-> [d EXCEPT !.description = PatternSub(rule, @)],
                 heap |-> hp, raised |-> FALSE]
           ELSE [data |-> d, heap |-> hp, raised |-> TRUE]
      [] OTHER -> [data |-> d, heap |-> hp, raised |-> FALSE]

\* variant: success_count written from the value the rule object was loaded
\* with, not from the stored row
CountSuccessFromLoadedObject(store, obj) ==
  [store EXCEPT ![obj.id].success_count = 1]

\* rule.success_count = F('success_count') + 1; rule.save(update_fields=..):
\* UPDATE .. SET success_count = success_count + 1 on the stored row of the
\* rule object obj
CountSuccess(store, obj) ==
  [store EXCEPT ![obj.id].success_count = @ + 1]

\* rule.failure_count = F('failure_count') + 1 in the except branch
\* variant: success counted before the application raised
CountFailureAfterSuccess(store, obj) ==
  [store EXCEPT ![obj.id].failure_count = @ + 1,
                ![obj.id].success_count = @ + 1]

CountFailure(store, obj) ==
  [store EXCEPT ![obj.id].failure_count = @ + 1]

\* Meta.ordering = ['-success_count', 'category', 'pattern'] within one
\* category; rank is the collation rank of the pattern text
OrderedBefore(store, i, j) ==
  \/ store[i].success_count > store[j].success_count
  \/ /\ store[i].success_count = store[j].success_count
     /\ \/ store[i].pattern.rank < store[j].pattern.rank
        \/ /\ store[i].pattern.rank = store[j].pattern.rank
           /\ i <= j

RECURSIVE OrderRules(_, _)
OrderRules(store, ids) ==
  IF ids = {} THEN <<>>
  ELSE LET first == CHOOSE i \in ids : \A j \in ids : OrderedBefore(store, i, j)
       IN <<[id |-> first, pattern |-> store[first].pattern,
             replacement |-> store[first].replacement,
             category |-> store[first].category]>>
          \o OrderRules(store, ids \ {first})

\* list(CleaningRule.objects.filter(category=cat, is_active=True))
ActiveRules(store, cat) ==
  OrderRules(store, {i \in 1..Len(store) :
                       store[i].category = cat /\ store[i].is_active})

\* variant: the queries do not filter on is_active
LoadRulesInactiveToo(store) ==
  [c \in {Categories[i] : i \in 1..Len(Categories)} |->
     OrderRules(store, {i \in 1..Len(store) : store[i].category = c})]

\* RuleBasedCleaner.load_rules
LoadRules(store) ==
  [c \in {Categories[i] : i \in 1..Len(Categories)} |-> ActiveRules(store, c)]

\* ---------------------------------------------------- Semantic Cleaner
\* the keys of a recipe other than title, description, ingredients and
\* instructions
NoOthers == [source_url |-> Str(<<>>), servings |-> NonStr(<<>>)]

SuffixesToRemove ==
  << <<"-", "Recipe">>, <<"Recipe">>, <<"|", "Allrecipes">>,
     <<"-", "Allrecipes">>, <<"|", "Food", "Network">>,
     <<"-", "Food", "Network">>, <<"|", "Tasty">>, <<"-", "Tasty">> >>

\* cleaned_title.endswith(' ' + suffix): a word must precede the suffix
EndsWith(t, sfx) ==
  /\ Len(t) > Len(sfx)
  /\ SubSeq(t, Len(t) - Len(sfx) + 1, Len(t)) = sfx

RECURSIVE StripSuffixes(_, _)
StripSuffixes(t, sfxs) ==
  IF sfxs = <<>> THEN t
  ELSE StripSuffixes(IF EndsWith(t, Head(sfxs))
                     THEN SubSeq(t, 1, Len(t) - Len(Head(sfxs)))
                     ELSE t,
                     Tail(sfxs))

\* RecipeCleaningService.clean_title on a str
clean_title(title) ==
  LET t == StripSuffixes(title.w, SuffixesToRemove)
  IN Str([i \in 1..Len(t) |-> Capitalize(t[i])])

\* clean_description: the stripped response, or the input when the call fails
clean_description(description, out) ==
  IF ~out.ok THEN description ELSE out.v

\* variant: an empty list when the call or the parsing fails
clean_ingredients_or_empty(ref, hp, out, fresh) ==
  [ref |-> fresh, heap |-> [hp EXCEPT ![fresh] = out.v]]

\* clean_ingredients on a list of records: the parsed response, a new list
\* (cell fresh), or the very same list object when the call or the parsing
\* fails.  The order and notes fields the success path adds are
\* read by no rule and left out.
clean_ingredients(ref, hp, out, fresh) ==
  IF ~out.ok THEN [ref |-> ref, heap |-> hp]
  ELSE [ref |-> fresh, heap |-> [hp EXCEPT ![fresh] = out.v]]

\* clean_instructions: description and order are taken from the response's
\* 'instruction' and 'step'
clean_instructions(ref, hp, out, fresh) ==
  IF ~out.ok THEN [ref |-> ref, heap |-> hp]
  ELSE [ref |-> fresh,
        heap |-> [hp EXCEPT ![fresh] =
                    [i \in 1..Len(out.v) |->
                       [description |-> out.v[i].instruction,
                        order |-> out.v[i].step]]]]

\* variant: the result is built from the four cleaned fields alone
clean_recipe_cleaned_fields_only(d, hp, o, freshIng, freshInst) ==
  LET desc == IF Truthy(d.description)
              THEN clean_description(d.description, o.desc)
              ELSE d.description
      ing  == IF hp[d.ing] # <<>>
              THEN clean_ingredients(d.ing, hp, o.ing, freshIng)
              ELSE [ref |-> d.ing, heap |-> hp]
      inst == IF ing.heap[d.inst] # <<>>
              THEN clean_instructions(d.inst, ing.heap, o.inst, freshInst)
              ELSE [ref |-> d.inst, heap |-> ing.heap]
  IN IF Truthy(d.title) /\ d.title.k # "s"
     THEN [data |-> d, heap |-> hp]
     ELSE [data |-> [title |-> IF Truthy(d.title) THEN clean_title(d.title)
                               ELSE d.title,
                     description |-> desc,
                     ing |-> ing.ref, inst |-> inst.ref,
                     others |-> NoOthers],
           heap |-> inst.heap]

\* RecipeCleaningService.clean_recipe: o is the backend's behaviour on the
\* three calls, freshIng / freshInst the cells of the lists it may build.
\* A truthy non-string title makes clean_title raise; the handler returns
\* the input dict itself.  cleaned_data = recipe_data.copy() keeps every
\* other key.
clean_recipe(d, hp, o, freshIng, freshInst) ==
  LET desc == IF Truthy(d.description)
              THEN clean_description(d.description, o.desc)
              ELSE d.description
      ing  == IF hp[d.ing] # <<>>
              THEN clean_ingredients(d.ing, hp, o.ing, freshIng)
              ELSE [ref |-> d.ing, heap |-> hp]
      inst == IF ing.heap[d.inst] # <<>>
              THEN clean_instructions(d.inst, ing.heap, o.inst, freshInst)
              ELSE [ref |-> d.inst, heap |-> ing.heap]
  IN IF Truthy(d.title) /\ d.title.k # "s"
     THEN [data |-> d, heap |-> hp]
     ELSE [data |-> [title |-> IF Truthy(d.title) THEN clean_title(d.title)
                               ELSE d.title,
                     description |-> desc,
                     ing |-> ing.ref, inst |-> inst.ref,
                     others |-> d.others],
           heap |-> inst.heap]

\* the recipe a dict denotes, nested lists included
Deref(d, hp) ==
  [title |-> d.title, description |-> d.description,
   ingredients |-> hp[d.ing], instructions |-> hp[d.inst],
   others |-> d.others]

\* ------------------------------------------------------ Feedback Analyzer
ExamplesLimit == 5

PromptExamples == 3

\* the cleaner's own prompt; by names the invocation that installed a prompt
DefaultPrompt == [base |-> "default", examples |-> <<>>, by |-> "none"]

RECURSIVE GoodNewestFirst(_)
GoodNewestFirst(fb) ==
  IF fb = <<>> THEN <<>>
  ELSE LET last == fb[Len(fb)]
       IN (IF last.feedback_type = "good"
           THEN <<[before |-> last.original_data, after |-> last.cleaned_data]>>
           ELSE <<>>)
          \o GoodNewestFirst(SubSeq(fb, 1, Len(fb) - 1))

\* variant: order_by('created_at'), the oldest rows first
get_similar_examples_oldest_first(fb, limit) ==
  LET good == SelectSeq(fb, LAMBDA row : row.feedback_type = "good")
      all  == [i \in 1..Len(good) |-> [before |-> good[i].original_data,
                                        after |-> good[i].cleaned_data]]
  IN SubSeq(all, 1, IF Len(all) < limit THEN Len(all) ELSE limit)

\* FeedbackAnalyzer.get_similar_examples: filter(feedback_type='good')
\* .order_by('-created_at')[:limit]; rows are kept in creation order
get_similar_examples(fb, limit) ==
  LET all == GoodNewestFirst(fb)
  IN SubSeq(all, 1, IF Len(all) < limit THEN Len(all) ELSE limit)

\* FeedbackAnalyzer.generate_prompt: the base prompt, extended by the first
\* three examples when there are any
generate_prompt(similar, who) ==
  [base |-> "analyzer",
   examples |-> SubSeq(similar, 1, IF Len(similar) < PromptExamples
                                   THEN Len(similar) ELSE PromptExamples),
   by |-> who]

\* ------------------------------------------------------------------ state
Procs == {"p1", "p2"}

Refs == {"c_ing", "c_inst", "o_ing", "o_inst",
         "a_ing", "a_inst", "f_ing", "f_inst"}

EmptyHeap == [r \in Refs |-> <<>>]

NoDict == [title |-> Str(<<>>), description |-> Str(<<>>),
           ing |-> "c_ing", inst |-> "c_inst", others |-> NoOthers]

NoRecipe == [title |-> Str(<<>>), description |-> Str(<<>>),
             ingredients |-> <<>>, instructions |-> <<>>, others |-> NoOthers]

\* recipes handed to clean_recipe: a scraped one, and one with unexpected
\* field shapes (an integer quantity, a title, a description and a second
\* ingredient name that are not strings)
InputRecipes ==
  { [title |-> Str(<<"butter", "cake", "-", "Recipe">>),
     description |-> Str(<<"Yummy", "cake">>),
     ingredients |-> << [name |-> Str(<<"butter">>),
                         quantity |-> Str(<<"2", "Tablespoons">>)] >>,
     instructions |-> << [description |-> Str(<<"Pre-heat", "oven">>),
                          order |-> 1] >>,
     others |-> [source_url |-> Str(<<"https://example.com/cake">>),
                 servings |-> NonStr(<<"8">>)]],
    [title |-> NonStr(<<"7">>),
     description |-> NonStr(<<"7">>),
     ingredients |-> << [name |-> Str(<<"Tablespoons">>),
                         quantity |-> NonStr(<<"2">>)],
                        [name |-> NonStr(<<"7">>),
                         quantity |-> Str(<<"tablespoons">>)] >>,
     instructions |-> << [description |-> Str(<<"Pre-heat", "oven">>),
                          order |-> 1] >>,
     others |-> [source_url |-> Str(<<"https://example.com/7">>),
                 servings |-> Str(<<"Tablespoons">>)]] }

\* what the backend does on the description, ingredients and instructions
\* calls; ok = FALSE is an exception or a response that does not parse
DescReply == [ok |-> TRUE, v |-> Str(<<"Tasty", "cake">>)]

IngReply ==
  [ok |-> TRUE, v |-> << [name |-> Str(<<"butter">>),
                          quantity |-> Str(<<"2", "Tablespoons">>)] >>]

InstReply ==
  [ok |-> TRUE, v |-> << [step |-> 1,
                          instruction |-> Str(<<"Pre-heat", "oven">>)] >>]

NoText == [ok |-> FALSE, v |-> Str(<<>>)]

NoList == [ok |-> FALSE, v |-> <<>>]

BackendOutcomes ==
  { [desc |-> DescReply, ing |-> IngReply, inst |-> InstReply],
    [desc |-> NoText,    ing |-> NoList,   inst |-> NoList],
    [desc |-> DescReply, ing |-> NoList,   inst |-> InstReply],
    [desc |-> NoText,    ing |-> IngReply, inst |-> NoList] }

Rule(pat, repl, cat) ==
  [pattern |-> pat, replacement |-> repl, category |-> cat,
   success_count |-> 0, failure_count |-> 0, is_active |-> TRUE]

\* rule stores the system starts from: a general rule whose pattern may fail
\* to compile and matches text the ingredient rule matches too, the seeded
\* ingredient and instruction rules, and a description rule
RuleStores ==
  { << Rule([valid |-> v, words |-> {"tablespoons"}, rank |-> 3],
            <<"spoons">>, "general"),
       Rule([valid |-> TRUE, words |-> {"tablespoon", "tablespoons"}, rank |-> 2],
            <<"tbsp">>, "ingredient"),
       Rule([valid |-> TRUE, words |-> {"pre-heat"}, rank |-> 1],
            <<"Preheat">>, "instruction"),
       Rule([valid |-> TRUE, words |-> {"yummy"}, rank |-> 4],
            <<>>, "description") >> : v \in BOOLEAN }

VARIABLES
  rules,          \* CleaningRule rows, by id
  engineRules,    \* rule_engine.rules
  system_prompt,  \* base_cleaner.system_prompt
  feedback,       \* RecipeCleaningFeedback rows in creation order
  invocations,    \* clean_recipe calls started so far
  faults,         \* store operations that have failed so far
  pc,             \* where each invocation stands
  heap,           \* each invocation's list objects
  recipe_data,    \* the caller's dict
  original_data,  \* the snapshot dict
  work,           \* pre_cleaned / ai_cleaned / data
  iter,           \* rules left in the running for-loop
  cat,            \* index of post_process's category (0 in the pre-pass)
  saved_prompt,   \* original_prompt
  enhanced,       \* enhanced_prompt
  ret,            \* the returned pair
  input0,         \* history: the recipe as it was when the call started
  fallback_in,    \* history: recipe and prompt of the fallback's cleaner call
  ai_prompt,      \* history: prompt in force during the step-4 cleaner call
  dirty,          \* history: system_prompt was written by another invocation
                  \* between this one's override and its cleaner call
  direct,         \* history: backend behaviour in the call on recipe_data
  tried,          \* history: attempts per rule, by outcome
  log,            \* history: attempts of the running rule pass
  plan,           \* history: rules the loops of the running pass were given
  learn,          \* each caller's feedback submission, learn_from_feedback or
                  \* initialize_default_rules call: locals and history
                  \* (during: the invocations that stood in their cleaner
                  \* call when it began)
  ops,            \* such calls started so far
  covered,        \* history: number of feedback rows the latest
                  \* learn_from_feedback call that returned its rules had scanned
  recipes,        \* ids of the Recipe rows
  probe           \* the latest direct call of a function: name, arguments
                  \* and result

vars == <<rules, engineRules, system_prompt, feedback, invocations, faults, pc, heap,
          recipe_data, original_data, work, iter, cat, saved_prompt,
          enhanced, ret, input0, fallback_in, ai_prompt, dirty, direct, tried,
          log, plan,
          learn, ops, covered, recipes, probe>>

RuleIds == 1..Len(rules)

\* user_corrections = None
NoCorrections == [present |-> FALSE, names |-> <<>>]

\* the locals of a call of the learning loop before it starts
NoLearn ==
  [op |-> "none", row |-> 0, called |-> FALSE, found |-> <<>>, todo |-> <<>>,
   new_rules |-> <<>>, failed |-> FALSE, result |-> <<>>, fb_len |-> 0,
   again |-> FALSE, during |-> {}]

\* the rules of a loop of apply_rules call number c of the pass (0 is the
\* pre-pass)
Entries(objs, c) == [i \in 1..Len(objs) |-> [id |-> objs[i].id, cat |-> c]]

NoFallback == [taken |-> FALSE, recipe |-> NoRecipe, prompt |-> DefaultPrompt]

NoCall == [made |-> FALSE, desc |-> FALSE, ing |-> FALSE, inst |-> FALSE]

Called(o) == [made |-> TRUE, desc |-> o.desc.ok, ing |-> o.ing.ok, inst |-> o.inst.ok]

\* no function has been called directly
NoProbe == [fn |-> "none"]

\* no call is running: a freshly constructed AdaptiveRecipeCleaner over the
\* stored rules
NothingRunning ==
  /\ engineRules = LoadRules(rules)
  /\ system_prompt = DefaultPrompt
  /\ invocations = 0
  /\ faults = 0
  /\ pc = [p \in Procs |-> "idle"]
  /\ heap = [p \in Procs |-> EmptyHeap]
  /\ recipe_data = [p \in Procs |-> NoDict]
  /\ original_data = [p \in Procs |-> NoDict]
  /\ work = [p \in Procs |-> NoDict]
  /\ iter = [p \in Procs |-> <<>>]
  /\ cat = [p \in Procs |-> 0]
  /\ saved_prompt = [p \in Procs |-> DefaultPrompt]
  /\ enhanced = [p \in Procs |-> DefaultPrompt]
  /\ ret = [p \in Procs |-> [cleaned |-> NoDict, original |-> NoDict]]
  /\ input0 = [p \in Procs |-> NoRecipe]
  /\ fallback_in = [p \in Procs |-> NoFallback]
  /\ ai_prompt = [p \in Procs |-> DefaultPrompt]
  /\ dirty = [p \in Procs |-> FALSE]
  /\ direct = [p \in Procs |-> NoCall]
  /\ tried = [i \in 1..Len(rules) |-> [ok |-> 0, failed |-> 0]]
  /\ log = [p \in Procs |-> <<>>]
  /\ plan = [p \in Procs |-> <<>>]
  /\ learn = [p \in Procs |-> NoLearn]
  /\ ops = 0
  /\ covered = -1
  /\ probe = NoProbe

Init ==
  /\ rules \in RuleStores
  /\ recipes = {1}
  /\ feedback = << [recipe |-> 1, feedback_type |-> "good",
                    original_data |-> <<"EVOO">>,
                    cleaned_data |-> <<"olive oil">>,
                    user_corrections |-> NoCorrections] >>
  /\ NothingRunning

\* ---------------------------------------------------------- orchestrator
\* variant: recipe_data.copy(), which shares the nested lists
SnapshotShallow(d, hp) == [data |-> d, heap |-> hp]

\* json.loads(json.dumps(recipe_data)): the values of the model survive the
\* round trip; the nested lists are rebuilt as new objects
Snapshot(d, hp) ==
  [data |-> [d EXCEPT !.ing = "o_ing", !.inst = "o_inst"],
   heap |-> [hp EXCEPT !["o_ing"] = hp[d.ing], !["o_inst"] = hp[d.inst]]]

\* variant: the try block ends with the cleaner call of step 4
HandlerUpToStep4(at) ==
  IF at \in {"pre_general", "examples", "save_prompt", "set_prompt",
             "ai_clean", "restore_prompt"}
  THEN "fallback" ELSE "raised"

\* where an exception raised at pc is caught: the try block of clean_recipe
\* spans steps 1 to 5
Handler(at) ==
  IF at \in {"pre_general", "examples", "save_prompt", "set_prompt",
             "ai_clean", "restore_prompt", "post_load", "post_general",
             "post_category"}
  THEN "fallback" ELSE "raised"

RulePcs == {"pre_general", "post_general", "post_category"}

\* the objects still referenced once clean_recipe has returned
Live(hp, cleaned) ==
  [r \in Refs |-> IF r \in {"c_ing", "c_inst", "o_ing", "o_inst",
                            cleaned.ing, cleaned.inst}
                  THEN hp[r] ELSE <<>>]

\* clean_recipe returns (cleaned, original_data); its locals die
Return(p, cleaned, hp) ==
  /\ ret' = [ret EXCEPT ![p] = [cleaned |-> cleaned, original |-> original_data[p]]]
  /\ heap' = [heap EXCEPT ![p] = Live(hp, cleaned)]
  /\ pc' = [pc EXCEPT ![p] = "returned"]
  /\ work' = [work EXCEPT ![p] = NoDict]
  /\ iter' = [iter EXCEPT ![p] = <<>>]
  /\ cat' = [cat EXCEPT ![p] = 0]
  /\ saved_prompt' = [saved_prompt EXCEPT ![p] = DefaultPrompt]
  /\ enhanced' = [enhanced EXCEPT ![p] = DefaultPrompt]
  /\ log' = [log EXCEPT ![p] = <<>>]
  /\ plan' = [plan EXCEPT ![p] = <<>>]
  /\ UNCHANGED <<recipe_data, original_data>>

shared == <<rules, engineRules, system_prompt, feedback, invocations, faults>>

\* variant: no try/except around the application of a rule
OnRuleErrorPropagate(at) == Handler(at)

\* the try/except of _apply_rule_to_data: an exception raised while a rule
\* is applied is caught there, so the for-loop at pc goes on
OnRuleError(at) == at

\* the position of apply_rules / post_process once the for-loop at pc has
\* er's list it left to run: the loop itself, or what follows an exhausted
\* loop (the loop over self.rules.get(category), the next category's call
\* of apply_rules, or the return)
RECURSIVE Settle(_, _, _, _, _)
Settle(at, c, it, pl, er) ==
  IF it # <<>> THEN [pc |-> at, cat |-> c, iter |-> it, plan |-> pl]
  ELSE IF at = "pre_general"
       THEN [pc |-> "examples", cat |-> c, iter |-> <<>>, plan |-> pl]
  ELSE IF at = "post_general"
       THEN Settle("post_category", c, er[Categories[c]],
                   pl \o Entries(er[Categories[c]], c), er)
  ELSE IF c < Len(Categories)
       THEN Settle("post_general", c + 1, er["general"],
                   pl \o Entries(er["general"], c + 1), er)
  ELSE [pc |-> "post_done", cat |-> c, iter |-> <<>>, plan |-> pl]

\* clean_recipe, line 181 to the entry of the pre-pass (or of the plain call)
Start(p) ==
  /\ UNCHANGED <<learn, ops, covered, recipes, probe>>
  /\ pc[p] \in {"idle", "returned"}
  /\ invocations < MaxInvocations
  /\ \E r \in InputRecipes, enable_adaptive \in BOOLEAN :
       LET d    == [title |-> r.title, description |-> r.description,
                    ing |-> "c_ing", inst |-> "c_inst", others |-> r.others]
           hp   == [EmptyHeap EXCEPT !["c_ing"] = r.ingredients,
                                     !["c_inst"] = r.instructions]
           snap == Snapshot(d, hp)
           to   == Settle("pre_general", 0, engineRules["general"],
                          Entries(engineRules["general"], 0), engineRules)
       IN /\ recipe_data' = [recipe_data EXCEPT ![p] = d]
          /\ original_data' = [original_data EXCEPT ![p] = snap.data]
          /\ heap' = [heap EXCEPT ![p] = snap.heap]
          /\ input0' = [input0 EXCEPT ![p] = r]
          /\ work' = [work EXCEPT ![p] = IF enable_adaptive THEN d ELSE NoDict]
          /\ pc' = [pc EXCEPT ![p] = IF enable_adaptive THEN to.pc ELSE "plain"]
          /\ iter' = [iter EXCEPT ![p] = IF enable_adaptive THEN to.iter ELSE <<>>]
          /\ plan' = [plan EXCEPT ![p] = IF enable_adaptive THEN to.plan ELSE <<>>]
  /\ invocations' = invocations + 1
  /\ cat' = [cat EXCEPT ![p] = 0]
  /\ log' = [log EXCEPT ![p] = <<>>]
  /\ ret' = [ret EXCEPT ![p] = [cleaned |-> NoDict, original |-> NoDict]]
  /\ fallback_in' = [fallback_in EXCEPT ![p] = NoFallback]
  /\ ai_prompt' = [ai_prompt EXCEPT ![p] = DefaultPrompt]
  /\ direct' = [direct EXCEPT ![p] = NoCall]
  /\ UNCHANGED <<rules, engineRules, system_prompt, feedback, faults,
                 saved_prompt, enhanced, dirty, tried>>

\* enable_adaptive = False: base_cleaner.clean_recipe(recipe_data)
PlainClean(p) ==
  /\ UNCHANGED <<learn, ops, covered, recipes, probe>>
  /\ pc[p] = "plain"
  /\ \E o \in BackendOutcomes :
       LET r == clean_recipe(recipe_data[p], heap[p], o, "f_ing", "f_inst")
       IN /\ Return(p, r.data, r.heap)
          /\ direct' = [direct EXCEPT ![p] = Called(o)]
  /\ UNCHANGED <<shared, input0, fallback_in, ai_prompt, dirty, tried>>

\* one turn of a for-loop of apply_rules: _apply_rule_to_data on the next
\* rule, then the next turn, the next loop or the return of post_process
ApplyRule(p) ==
  /\ UNCHANGED <<learn, ops, covered, recipes, probe>>
  /\ pc[p] \in RulePcs
  /\ iter[p] # <<>>
  /\ LET obj  == Head(iter[p])
         r    == ApplyRuleToData(work[p], heap[p], obj)
         at   == IF r.raised THEN OnRuleError(pc[p]) ELSE pc[p]
         to   == Settle(at, cat[p], Tail(iter[p]), plan[p], engineRules)
     IN /\ work' = [work EXCEPT ![p] = r.data]
        /\ heap' = [heap EXCEPT ![p] = r.heap]
        /\ rules' = IF r.raised THEN CountFailure(rules, obj)
                    ELSE CountSuccess(rules, obj)
        /\ tried' = IF r.raised
                    THEN [tried EXCEPT ![obj.id].failed = @ + 1]
                    ELSE [tried EXCEPT ![obj.id].ok = @ + 1]
        /\ log' = [log EXCEPT ![p] =
                     Append(@, [id |-> obj.id, cat |-> cat[p], raised |-> r.raised])]
        /\ IF at \in RulePcs
           THEN /\ pc' = [pc EXCEPT ![p] = to.pc]
                /\ cat' = [cat EXCEPT ![p] = to.cat]
                /\ iter' = [iter EXCEPT ![p] = to.iter]
                /\ plan' = [plan EXCEPT ![p] = to.plan]
           ELSE /\ pc' = [pc EXCEPT ![p] = at]
                /\ UNCHANGED <<cat, iter, plan>>
  /\ UNCHANGED <<engineRules, system_prompt, feedback, invocations, faults,
                 recipe_data, original_data, saved_prompt, enhanced, ret,
                 input0, fallback_in, ai_prompt, dirty, direct>>

\* steps 2 and 3: get_similar_examples and generate_prompt
GetExamples(p) ==
  /\ UNCHANGED <<learn, ops, covered, recipes, probe>>
  /\ pc[p] = "examples"
  /\ enhanced' = [enhanced EXCEPT ![p] =
                    generate_prompt(get_similar_examples(feedback, ExamplesLimit), p)]
  /\ pc' = [pc EXCEPT ![p] = "save_prompt"]
  /\ UNCHANGED <<shared, heap, recipe_data, original_data, work, iter, cat,
                 saved_prompt, ret, input0, fallback_in, ai_prompt, dirty,
                 direct, tried, log, plan>>

\* original_prompt = self.base_cleaner.system_prompt
SavePrompt(p) ==
  /\ UNCHANGED <<learn, ops, covered, recipes, probe>>
  /\ pc[p] = "save_prompt"
  /\ saved_prompt' = [saved_prompt EXCEPT ![p] = system_prompt]
  /\ pc' = [pc EXCEPT ![p] = "set_prompt"]
  /\ UNCHANGED <<shared, heap, recipe_data, original_data, work, iter, cat,
                 enhanced, ret, input0, fallback_in, ai_prompt, dirty, direct,
                 tried, log, plan>>

\* variant: the override is never installed
InstallNothing(prompt) == DefaultPrompt

\* the value line 204 assigns to system_prompt
Install(prompt) == prompt

\* self.base_cleaner.system_prompt = enhanced_prompt
SetPrompt(p) ==
  /\ UNCHANGED <<learn, ops, covered, recipes, probe>>
  /\ pc[p] = "set_prompt"
  /\ system_prompt' = Install(enhanced[p])
  /\ dirty' = [q \in Procs |-> q # p /\ (dirty[q] \/ pc[q] = "ai_clean")]
  /\ pc' = [pc EXCEPT ![p] = "ai_clean"]
  /\ UNCHANGED <<rules, engineRules, feedback, invocations, faults, heap,
                 recipe_data, original_data, work, iter, cat, saved_prompt,
                 enhanced, ret, input0, fallback_in, ai_prompt, direct, tried,
                 log, plan>>

\* ai_cleaned = self.base_cleaner.clean_recipe(pre_cleaned)
AiClean(p) ==
  /\ UNCHANGED <<learn, ops, covered, recipes, probe>>
  /\ pc[p] = "ai_clean"
  /\ \E o \in BackendOutcomes :
       LET r == clean_recipe(work[p], heap[p], o, "a_ing", "a_inst")
       IN /\ heap' = [heap EXCEPT ![p] = r.heap]
          /\ work' = [work EXCEPT ![p] = r.data]
  /\ ai_prompt' = [ai_prompt EXCEPT ![p] = system_prompt]
  /\ pc' = [pc EXCEPT ![p] = "restore_prompt"]
  /\ UNCHANGED <<shared, recipe_data, original_data, iter, cat, saved_prompt,
                 enhanced, ret, input0, fallback_in, dirty, direct, tried,
                 log, plan>>

\* self.base_cleaner.system_prompt = original_prompt
RestorePrompt(p) ==
  /\ UNCHANGED <<learn, ops, covered, recipes, probe>>
  /\ pc[p] = "restore_prompt"
  /\ system_prompt' = saved_prompt[p]
  /\ dirty' = [q \in Procs |-> q # p /\ (dirty[q] \/ pc[q] = "ai_clean")]
  /\ pc' = [pc EXCEPT ![p] = "post_load"]
  /\ UNCHANGED <<rules, engineRules, feedback, invocations, faults, heap,
                 recipe_data, original_data, work, iter, cat, saved_prompt,
                 enhanced, ret, input0, fallback_in, ai_prompt, direct, tried,
                 log, plan>>

\* post_process: load_rules(), then apply_rules(data, 'general') starts
PostLoad(p) ==
  /\ UNCHANGED <<learn, ops, covered, recipes, probe>>
  /\ pc[p] = "post_load"
  /\ engineRules' = LoadRules(rules)
  /\ LET to == Settle("post_general", 1, engineRules'["general"],
                      Entries(engineRules'["general"], 1), engineRules')
     IN /\ pc' = [pc EXCEPT ![p] = to.pc]
        /\ cat' = [cat EXCEPT ![p] = to.cat]
        /\ iter' = [iter EXCEPT ![p] = to.iter]
        /\ plan' = [plan EXCEPT ![p] = to.plan]
  /\ log' = [log EXCEPT ![p] = <<>>]
  /\ UNCHANGED <<rules, system_prompt, feedback, invocations, faults, heap,
                 recipe_data, original_data, work, saved_prompt, enhanced,
                 ret, input0, fallback_in, ai_prompt, dirty, direct, tried>>

\* return final_cleaned, original_data
PostDone(p) ==
  /\ UNCHANGED <<learn, ops, covered, recipes, probe>>
  /\ pc[p] = "post_done"
  /\ Return(p, work[p], heap[p])
  /\ UNCHANGED <<shared, input0, fallback_in, ai_prompt, dirty, direct, tried>>

\* except Exception: cleaned = self.base_cleaner.clean_recipe(recipe_data)
Fallback(p) ==
  /\ UNCHANGED <<learn, ops, covered, recipes, probe>>
  /\ pc[p] = "fallback"
  /\ \E o \in BackendOutcomes :
       LET r == clean_recipe(recipe_data[p], heap[p], o, "f_ing", "f_inst")
       IN /\ Return(p, r.data, r.heap)
          /\ direct' = [direct EXCEPT ![p] = Called(o)]
  /\ fallback_in' = [fallback_in EXCEPT ![p] =
                       [taken |-> TRUE,
                        recipe |-> Deref(recipe_data[p], heap[p]),
                        prompt |-> system_prompt]]
  /\ UNCHANGED <<shared, input0, ai_prompt, dirty, tried>>

\* a store operation raises (the database is unreachable) during the
\* counter write of the rule in turn.  When the write of success_count fails
\* after a clean application, the handler's write of failure_count may still
\* go through; otherwise the exception leaves apply_rules.
CounterWriteFault(p) ==
  /\ UNCHANGED <<learn, ops, covered, recipes, probe>>
  /\ pc[p] \in RulePcs
  /\ iter[p] # <<>>
  /\ faults < MaxFaults
  /\ faults' = faults + 1
  /\ LET obj == Head(iter[p])
         r   == ApplyRuleToData(work[p], heap[p], obj)
         to  == Settle(pc[p], cat[p], Tail(iter[p]), plan[p], engineRules)
     IN /\ work' = [work EXCEPT ![p] = r.data]
        /\ heap' = [heap EXCEPT ![p] = r.heap]
        /\ \E handler_write_ok \in BOOLEAN :
             IF handler_write_ok /\ ~r.raised
             THEN /\ rules' = CountFailure(rules, obj)
                  /\ pc' = [pc EXCEPT ![p] = to.pc]
                  /\ cat' = [cat EXCEPT ![p] = to.cat]
                  /\ iter' = [iter EXCEPT ![p] = to.iter]
                  /\ plan' = [plan EXCEPT ![p] = to.plan]
                  /\ log' = [log EXCEPT ![p] =
                               Append(@, [id |-> obj.id, cat |-> cat[p],
                                          raised |-> TRUE])]
             ELSE /\ rules' = rules
                  /\ pc' = [pc EXCEPT ![p] = Handler(pc[p])]
                  /\ UNCHANGED <<cat, iter, plan, log>>
  /\ UNCHANGED <<engineRules, system_prompt, feedback, invocations,
                 recipe_data, original_data, saved_prompt, enhanced, ret,
                 input0, fallback_in, ai_prompt, dirty, direct, tried>>

\* the feedback query of get_similar_examples or the queries of load_rules
\* raise
QueryFault(p) ==
  /\ UNCHANGED <<learn, ops, covered, recipes, probe>>
  /\ pc[p] \in {"examples", "post_load"}
  /\ faults < MaxFaults
  /\ faults' = faults + 1
  /\ pc' = [pc EXCEPT ![p] = Handler(pc[p])]
  /\ UNCHANGED <<rules, engineRules, system_prompt, feedback, invocations,
                 heap, recipe_data, original_data, work, iter, cat,
                 saved_prompt, enhanced, ret, input0, fallback_in, ai_prompt,
                 dirty, direct, tried, log, plan>>

Step(p) ==
  \/ Start(p)
  \/ PlainClean(p)
  \/ ApplyRule(p)
  \/ GetExamples(p)
  \/ SavePrompt(p)
  \/ SetPrompt(p)
  \/ AiClean(p)
  \/ RestorePrompt(p)
  \/ PostLoad(p)
  \/ PostDone(p)

\* Invocations that may overlap on one AdaptiveRecipeCleaner.  With a store
\* that answers, no step of the adaptive sequence raises: the except branch
\* of clean_recipe is entered only in SpecFault.
Next == \E p \in Procs : Step(p)

Spec == Init /\ [][Next]_vars

FaultStep(p) ==
  \/ CounterWriteFault(p)
  \/ QueryFault(p)
  \/ Fallback(p)

Alone(p) == \A q \in Procs \ {p} : pc[q] \in {"idle", "returned"}

\* Invocations that follow one another, with a store that can fail
NextFault == \E p \in Procs : Alone(p) /\ (Step(p) \/ FaultStep(p))

SpecFault == Init /\ [][NextFault]_vars

\* ---------------------------------------------------------- learning loop
MaxOps == 3

MaxFeedback == 3

\* discover_patterns(min_occurrences=3)
MinOccurrences == 3

\* re.escape(name) compiled with re.IGNORECASE: a pattern that matches the
\* name literally; rank is the collation rank of the escaped text
Escape(name) ==
  [valid |-> TRUE, words |-> {Lower(name)},
   rank |-> IF name = "EVOO" THEN 0 ELSE 5]

\* the filter of discover_patterns: feedback_type='needs_improvement',
\* user_corrections__isnull=False
Qualifies(row) ==
  row.feedback_type = "needs_improvement" /\ row.user_corrections.present

\* the name of an ingredient record that has no 'name' key: .get('name')
\* gives None
NoName == "None"

\* ing.get('name', '')
NameOr(name) == IF name = NoName THEN "" ELSE name

\* zip(original['ingredients'], corrected['ingredients']) of one row: the
\* (original name, corrected name) keys of the positions where
\* orig_ing.get('name') != corr_ing.get('name'), in list order
RowDiffs(row) ==
  LET o == row.original_data
      c == row.user_corrections.names
      n == IF Len(o) < Len(c) THEN Len(o) ELSE Len(c)
      d == SelectSeq([i \in 1..n |-> <<o[i], c[i]>>], LAMBDA k : k[1] # k[2])
  IN [i \in 1..Len(d) |-> <<NameOr(d[i][1]), NameOr(d[i][2])>>]

\* the keys counted by the scan of all qualifying rows, one entry per
\* increment of correction_map
RECURSIVE AllDiffs(_)
AllDiffs(fb) ==
  IF fb = <<>> THEN <<>>
  ELSE (IF Qualifies(Head(fb)) THEN RowDiffs(Head(fb)) ELSE <<>>)
       \o AllDiffs(Tail(fb))

\* correction_map[key]
Count(diffs, key) == Cardinality({i \in 1..Len(diffs) : diffs[i] = key})

\* the keys of correction_map in insertion order
RECURSIVE Keys(_)
Keys(diffs) ==
  IF diffs = <<>> THEN <<>>
  ELSE LET init == Keys(SubSeq(diffs, 1, Len(diffs) - 1))
           last == diffs[Len(diffs)]
       IN IF \E i \in 1..Len(init) : init[i] = last
          THEN init ELSE Append(init, last)

\* variant: a key needs more than min_occurrences increments
discover_patterns_above(fb, min_occurrences) ==
  LET diffs == AllDiffs(fb)
      hits  == SelectSeq(Keys(diffs), LAMBDA k : Count(diffs, k) > min_occurrences)
  IN [i \in 1..Len(hits) |->
        [pattern |-> Escape(hits[i][1]), replacement |-> <<hits[i][2]>>,
         category |-> "ingredient"]]

\* FeedbackAnalyzer.discover_patterns
discover_patterns(fb, min_occurrences) ==
  LET diffs == AllDiffs(fb)
      hits  == SelectSeq(Keys(diffs), LAMBDA k : Count(diffs, k) >= min_occurrences)
  IN [i \in 1..Len(hits) |->
        [pattern |-> Escape(hits[i][1]), replacement |-> <<hits[i][2]>>,
         category |-> "ingredient"]]

\* variant: the query never finds a row
MatchingNothing(store, c) == {}

\* CleaningRule.objects.filter(pattern=, replacement=, category=)
Matching(store, c) ==
  {i \in 1..Len(store) : /\ store[i].pattern = c.pattern
                         /\ store[i].replacement = c.replacement
                         /\ store[i].category = c.category}

\* variant: the insert overwrites the newest row of the table
CreateRuleOverwriting(store, c) ==
  IF store = <<>> THEN <<Rule(c.pattern, c.replacement, c.category)>>
  ELSE [store EXCEPT ![Len(store)] = Rule(c.pattern, c.replacement, c.category)]

\* CleaningRule.objects.create(pattern=, replacement=, category=, ..)
CreateRule(store, c) ==
  Append(store, Rule(c.pattern, c.replacement, c.category))

\* rows of the catalogue of initialize_default_rules
DefaultRules ==
  << [pattern |-> [valid |-> TRUE, words |-> {"tablespoon", "tablespoons"},
                   rank |-> 2],
      replacement |-> <<"tbsp">>, category |-> "ingredient"],
     [pattern |-> [valid |-> TRUE, words |-> {"pre-heat"}, rank |-> 1],
      replacement |-> <<"Preheat">>, category |-> "instruction"] >>

\* request bodies of submit_cleaning_feedback
FeedbackInputs ==
  { [feedback_type |-> "needs_improvement",
     original_data |-> <<"EVOO", "EVOO">>,
     cleaned_data |-> <<"EVOO", "EVOO">>,
     user_corrections |-> [present |-> TRUE,
                           names |-> <<"olive oil", "olive oil">>]],
    [feedback_type |-> "needs_improvement", original_data |-> <<"EVOO">>,
     cleaned_data |-> <<"EVOO">>, user_corrections |-> NoCorrections],
    [feedback_type |-> "good", original_data |-> <<"EVOO">>,
     cleaned_data |-> <<"olive oil">>,
     user_corrections |-> [present |-> TRUE, names |-> <<"olive oil">>]] }

\* RecipeCleaningFeedback.objects.create(recipe=recipe, original_data=..,
\* cleaned_data=.., user_corrections=.., feedback_type=.., ..)
FeedbackRow(recipe_id, data) ==
  [recipe |-> recipe_id, feedback_type |-> data.feedback_type,
   original_data |-> data.original_data, cleaned_data |-> data.cleaned_data,
   user_corrections |-> data.user_corrections]

\* what the learning loop leaves alone
cleaning == <<system_prompt, invocations, heap, recipe_data, original_data,
              work, iter, cat, saved_prompt, enhanced, ret, input0,
              fallback_in, ai_prompt, dirty, direct, log, plan, recipes, probe>>

\* variant: every submission is learnt from
ShouldLearnAlways(row) == TRUE

\* views.submit_cleaning_feedback: feedback.feedback_type ==
\* 'needs_improvement' and feedback.user_corrections
ShouldLearn(row) ==
  row.feedback_type = "needs_improvement" /\ row.user_corrections.present

\* the statement that follows the creation of the feedback row
AfterCreate(row) == IF ShouldLearn(row) THEN "learn_discover" ELSE "idle"

LearnPcs == {"learn_discover", "learn_exists", "learn_create", "learn_reload"}

\* the for-loop of learn_from_feedback: the check of the next pattern, or
\* the reload that follows the loop
NextPattern(todo) == IF todo # <<>> THEN "learn_exists" ELSE "learn_reload"

\* variant: an exception raised in learn_from_feedback reaches the caller
LearnHandlerNone(at) == "learn_raised"

\* the try/except of learn_from_feedback: an exception raised at pc is
\* logged and [] is returned
LearnHandler(at) == "idle"

\* submit_cleaning_feedback up to RecipeCleaningFeedback.objects.create
SubmitFeedback(p) ==
  /\ pc[p] = "idle"
  /\ ops < MaxOps
  /\ Len(feedback) < MaxFeedback
  /\ \E recipe_id \in recipes, data \in FeedbackInputs :
       LET row == FeedbackRow(recipe_id, data) IN
       /\ feedback' = Append(feedback, row)
       /\ learn' = [learn EXCEPT ![p] = [NoLearn EXCEPT !.op = "submit",
                                                        !.row = Len(feedback) + 1]]
       /\ pc' = [pc EXCEPT ![p] = AfterCreate(row)]
  /\ ops' = ops + 1
  /\ UNCHANGED <<rules, engineRules, faults, tried, covered, cleaning>>

\* a caller of learn_from_feedback on the shared AdaptiveRecipeCleaner
CallLearn(p) ==
  /\ pc[p] = "idle"
  /\ ops < MaxOps
  /\ learn' = [learn EXCEPT ![p] = [NoLearn EXCEPT !.op = "learn"]]
  /\ pc' = [pc EXCEPT ![p] = "learn_discover"]
  /\ ops' = ops + 1
  /\ UNCHANGED <<rules, engineRules, feedback, faults, tried, covered, cleaning>>

\* patterns = self.feedback_analyzer.discover_patterns()
Discover(p) ==
  /\ pc[p] = "learn_discover"
  /\ LET found == discover_patterns(feedback, MinOccurrences)
     IN /\ learn' = [learn EXCEPT ![p].called = TRUE,
                                  ![p].found = found,
                                  ![p].todo = found,
                                  ![p].fb_len = Len(feedback),
                                  ![p].again = (covered = Len(feedback))]
        /\ pc' = [pc EXCEPT ![p] = NextPattern(found)]
  /\ UNCHANGED <<rules, engineRules, feedback, faults, tried, ops, covered,
                 cleaning>>

\* if not CleaningRule.objects.filter(..).exists()
Exists(p) ==
  /\ pc[p] = "learn_exists"
  /\ IF Matching(rules, Head(learn[p].todo)) # {}
     THEN /\ learn' = [learn EXCEPT ![p].todo = Tail(@)]
          /\ pc' = [pc EXCEPT ![p] = NextPattern(Tail(learn[p].todo))]
     ELSE /\ pc' = [pc EXCEPT ![p] = "learn_create"]
          /\ UNCHANGED learn
  /\ UNCHANGED <<rules, engineRules, feedback, faults, tried, ops, covered,
                 cleaning>>

\* rule = CleaningRule.objects.create(..); new_rules.append(rule)
Create(p) ==
  /\ pc[p] = "learn_create"
  /\ rules' = CreateRule(rules, Head(learn[p].todo))
  /\ tried' = Append(tried, [ok |-> 0, failed |-> 0])
  /\ learn' = [learn EXCEPT ![p].todo = Tail(@),
                            ![p].new_rules = Append(@, Len(rules) + 1)]
  /\ pc' = [pc EXCEPT ![p] = NextPattern(Tail(learn[p].todo))]
  /\ UNCHANGED <<engineRules, feedback, faults, ops, covered, cleaning>>

\* self.rule_engine.load_rules(); return new_rules.  The view calls
\* learn_from_feedback on a cleaner of its own, whose engine is dropped.
Reload(p) ==
  /\ pc[p] = "learn_reload"
  /\ engineRules' = IF learn[p].op = "learn" THEN LoadRules(rules)
                    ELSE engineRules
  /\ learn' = [learn EXCEPT ![p].result = learn[p].new_rules]
  /\ covered' = learn[p].fb_len
  /\ pc' = [pc EXCEPT ![p] = "idle"]
  /\ UNCHANGED <<rules, feedback, faults, tried, ops, cleaning>>

\* a store operation of learn_from_feedback raises: the feedback query, the
\* exists query, the insert or a query of load_rules
LearnFault(p) ==
  /\ pc[p] \in LearnPcs
  /\ faults < MaxFaults
  /\ faults' = faults + 1
  /\ learn' = [learn EXCEPT ![p].failed = TRUE, ![p].called = TRUE,
                            ![p].result = <<>>]
  /\ pc' = [pc EXCEPT ![p] = LearnHandler(pc[p])]
  /\ UNCHANGED <<rules, engineRules, feedback, tried, ops, covered, cleaning>>

\* the for-loop of initialize_default_rules: the next get_or_create, or
\* the return of created_count
NextDefault(todo) == IF todo # <<>> THEN "seed_get" ELSE "idle"

\* a caller of initialize_default_rules
SeedStart(p) ==
  /\ pc[p] = "idle"
  /\ ops < MaxOps
  /\ learn' = [learn EXCEPT ![p] =
                  [NoLearn EXCEPT !.op = "seed", !.todo = DefaultRules,
                                  !.during = {q \in Procs : pc[q] = "ai_clean"}]]
  /\ pc' = [pc EXCEPT ![p] = "seed_get"]
  /\ ops' = ops + 1
  /\ UNCHANGED <<rules, engineRules, feedback, faults, tried, covered, cleaning>>

\* the get of CleaningRule.objects.get_or_create: one matching row is
\* returned, none leads to the insert, several raise
\* MultipleObjectsReturned, which initialize_default_rules does not catch
SeedGet(p) ==
  /\ pc[p] = "seed_get"
  /\ LET n == Cardinality(Matching(rules, Head(learn[p].todo)))
     IN IF n = 0
        THEN /\ pc' = [pc EXCEPT ![p] = "seed_create"]
             /\ UNCHANGED learn
        ELSE IF n = 1
        THEN /\ learn' = [learn EXCEPT ![p].todo = Tail(@),
                                       ![p].result = learn[p].new_rules]
             /\ pc' = [pc EXCEPT ![p] = NextDefault(Tail(learn[p].todo))]
        ELSE /\ learn' = [learn EXCEPT ![p].failed = TRUE]
             /\ pc' = [pc EXCEPT ![p] = "idle"]
  /\ UNCHANGED <<rules, engineRules, feedback, faults, tried, ops, covered,
                 cleaning>>

\* the create of get_or_create; created_count += 1
SeedCreate(p) ==
  /\ pc[p] = "seed_create"
  /\ rules' = CreateRule(rules, Head(learn[p].todo))
  /\ tried' = Append(tried, [ok |-> 0, failed |-> 0])
  /\ learn' = [learn EXCEPT ![p].todo = Tail(@),
                            ![p].new_rules = Append(@, Len(rules) + 1),
                            ![p].result = Append(learn[p].new_rules,
                                                 Len(rules) + 1)]
  /\ pc' = [pc EXCEPT ![p] = NextDefault(Tail(learn[p].todo))]
  /\ UNCHANGED <<engineRules, feedback, faults, ops, covered, cleaning>>

\* stores and feedback tables the learning loop starts from
InitLearn ==
  /\ rules \in {<<>>} \cup {st \in RuleStores : st[1].pattern.valid}
  /\ recipes = {1}
  /\ \E n \in 0..2 :
       feedback = [i \in 1..n |->
                     [recipe |-> 1, feedback_type |-> "needs_improvement",
                      original_data |-> <<"EVOO">>,
                      cleaned_data |-> <<"EVOO">>,
                      user_corrections |-> [present |-> TRUE,
                                            names |-> <<"olive oil">>]]]
  /\ NothingRunning

LearnStep(p) ==
  \/ SubmitFeedback(p)
  \/ CallLearn(p)
  \/ Discover(p)
  \/ Exists(p)
  \/ Create(p)
  \/ Reload(p)
  \/ LearnFault(p)
  \/ SeedStart(p)
  \/ SeedGet(p)
  \/ SeedCreate(p)

\* Feedback submissions, learn_from_feedback calls and seeding calls that
\* may overlap, with a store that can fail
NextLearn == \E p \in Procs : LearnStep(p)

SpecLearn == InitLearn /\ [][NextLearn]_vars

\* The pipeline and the learning loop on one store: either submissions,
\* learning and seeding calls that may overlap, or clean_recipe invocations
\* that follow one another
NextStore ==
  \E p \in Procs :
    \/ invocations = 0 /\ LearnStep(p)
    \/ ops = 0 /\ Alone(p) /\ Step(p)

SpecStore == InitLearn /\ [][NextStore]_vars

\* ------------------------------------------------------- recipe views
\* everything but the Recipe and feedback tables and the latest call
views_frame == <<rules, engineRules, system_prompt, invocations, faults, pc,
                 heap, recipe_data, original_data, work, iter, cat,
                 saved_prompt, enhanced, ret, input0, fallback_in, ai_prompt,
                 dirty, direct, tried, log, plan, learn, ops, covered>>

\* recipe = ForeignKey(Recipe, on_delete=models.CASCADE): the feedback rows
\* that are left once the rows of recipe_id went with their recipe
CascadeDelete(fb, recipe_id) == SelectSeq(fb, LAMBDA row : row.recipe # recipe_id)

\* views.delete_recipe: get_object_or_404, then recipe.delete()
DeleteRecipe(p) ==
  /\ pc[p] = "idle"
  /\ \E recipe_id \in recipes :
       /\ recipes' = recipes \ {recipe_id}
       /\ feedback' = CascadeDelete(feedback, recipe_id)
       /\ probe' = [fn |-> "delete_recipe", recipe |-> recipe_id]
  /\ UNCHANGED views_frame

\* views.update_recipe: the recipe's own fields, its ingredients and its
\* instructions are rewritten and a revision is added
UpdateRecipe(p) ==
  /\ pc[p] = "idle"
  /\ \E recipe_id \in recipes :
       probe' = [fn |-> "update_recipe", recipe |-> recipe_id]
  /\ UNCHANGED <<recipes, feedback>>
  /\ UNCHANGED views_frame

\* two recipes with feedback on both
InitRecipes ==
  /\ rules = <<>>
  /\ recipes = {1, 2}
  /\ \E n \in 1..2 :
       feedback = [i \in 1..n |->
                     [recipe |-> i, feedback_type |-> "needs_improvement",
                      original_data |-> <<"EVOO">>,
                      cleaned_data |-> <<"EVOO">>,
                      user_corrections |-> [present |-> TRUE,
                                            names |-> <<"olive oil">>]]]
  /\ NothingRunning

\* Requests served one after another: feedback submissions with the
\* learning they trigger, recipe updates and recipe deletions
NextRecipes ==
  \E p \in Procs :
    /\ Alone(p)
    /\ \/ SubmitFeedback(p)
       \/ Discover(p)
       \/ Exists(p)
       \/ Create(p)
       \/ Reload(p)
       \/ DeleteRecipe(p)
       \/ UpdateRecipe(p)

SpecRecipes == InitRecipes /\ [][NextRecipes]_vars

\* ------------------------------------------------------- direct calls
MaxSteps == 3

MaxTexts == 2

\* lists of at most n elements of S
ListsUpTo(S, n) == UNION {[1..k -> S] : k \in 0..n}

\* _parse_json_ld_recipe, instructions: an element whose text is empty is
\* skipped, the others keep i + 1 of enumerate as their order
ParseInstructions(texts) ==
  SelectSeq([i \in 1..Len(texts) |-> [description |-> texts[i], order |-> i]],
            LAMBDA inst : Truthy(inst.description))

\* _parse_json_ld_recipe on the Recipe item of the page
parse_json_ld_recipe(item) ==
  [title |-> item.name, description |-> item.description,
   ingredients |-> << [name |-> Str(<<"butter">>),
                       quantity |-> Str(<<"2", "Tablespoons">>)] >>,
   instructions |-> ParseInstructions(item.recipeInstructions),
   others |-> [source_url |-> Str(<<>>), servings |-> NonStr(<<"8">>)]]

\* what a call of scrape_recipe leaves: the dict it returns, the number of
\* calls of self.cleaner.clean_recipe it made and whether the dict holds
\* the key _original_data; or the exception it raises
ScrapeRaised(what) ==
  [raised |-> TRUE, error |-> what, recipe |-> NoRecipe, cleaner_calls |-> 0,
   has_original |-> FALSE]

\* _extract_from_html(self, soup, url): after the extraction the method
\* reads enable_cleaning, a name that is neither a parameter nor a local of
\* the method nor a global of services.py, so the read raises NameError
\* before the cleaner is called
extract_from_html(page) == ScrapeRaised("Failed to parse recipe")

\* RecipeScrapingService.scrape_recipe(url, enable_cleaning)
scrape_recipe(page, enable_cleaning) ==
  IF ~page.fetch_ok THEN ScrapeRaised("Failed to fetch recipe")
  ELSE IF page.json_ld.found
  THEN [raised |-> FALSE, error |-> "none",
        recipe |-> [parse_json_ld_recipe(page.json_ld) EXCEPT
                      !.others.source_url = page.url],
        cleaner_calls |-> 0, has_original |-> FALSE]
  ELSE extract_from_html(page)

\* pages behind the url: unreachable ones, pages with a JSON-LD Recipe item
\* (some of whose instruction texts may be empty) and pages without
Pages ==
  { [url |-> Str(<<"https://example.com/cake">>), fetch_ok |-> ok,
     json_ld |-> [found |-> found,
                  name |-> Str(<<"butter", "cake">>),
                  description |-> Str(<<"Yummy", "cake">>),
                  recipeInstructions |-> texts]] :
      ok \in BOOLEAN, found \in BOOLEAN,
      texts \in ListsUpTo({Str(<<>>), Str(<<"Pre-heat", "oven">>)}, MaxTexts) }

\* a caller of scrape_recipe
CallScrape ==
  /\ \E page \in Pages, enable_cleaning \in BOOLEAN :
       probe' = [fn |-> "scrape_recipe", page |-> page,
                 enable_cleaning |-> enable_cleaning,
                 result |-> scrape_recipe(page, enable_cleaning)]
  /\ UNCHANGED <<recipes, feedback>>
  /\ UNCHANGED views_frame

\* replies of the backend to the instructions call: the steps it numbers
\* as it likes
InstReplies ==
  { [ok |-> TRUE,
     v |-> [i \in 1..Len(steps) |->
              [step |-> steps[i], instruction |-> Str(<<"Preheat", "oven">>)]]] :
      steps \in ListsUpTo(1..MaxSteps, MaxTexts) } \cup {NoList}

\* recipes with one and with two instructions in order
CleanerInputs ==
  { [r EXCEPT !.instructions =
        [i \in 1..n |-> [description |-> Str(<<"Pre-heat", "oven">>),
                          order |-> i]]] :
      r \in InputRecipes, n \in 1..MaxTexts }

\* a caller of RecipeCleaningService.clean_recipe
CallCleaner ==
  /\ \E r \in CleanerInputs, reply \in InstReplies, o \in BackendOutcomes :
       LET d   == [title |-> r.title, description |-> r.description,
                   ing |-> "c_ing", inst |-> "c_inst", others |-> r.others]
           hp  == [EmptyHeap EXCEPT !["c_ing"] = r.ingredients,
                                    !["c_inst"] = r.instructions]
           out == clean_recipe(d, hp, [o EXCEPT !.inst = reply], "f_ing", "f_inst")
       IN probe' = [fn |-> "clean_recipe", recipe |-> r,
                    inst_ok |-> reply.ok,
                    result |-> Deref(out.data, out.heap)]
  /\ UNCHANGED <<recipes, feedback>>
  /\ UNCHANGED views_frame

InitCalls ==
  /\ rules = <<>>
  /\ recipes = {1}
  /\ feedback = <<>>
  /\ NothingRunning

\* Calls of the scraping service and of the Semantic Cleaner
NextCalls == CallScrape \/ CallCleaner

SpecCalls == InitCalls /\ [][NextCalls]_vars

\* ---------------------------------------------- Feedback Analyzer calls
MaxRows == 4

\* feedback rows: approved cleanings, with and without corrections;
\* corrections that rename the first ingredient, keep the second and drop
\* the third; corrections that swap two ingredients; corrections on an
\* ingredient that has no name, to a name and to an empty name; a
\* complaint without corrections
AnalyzerRows ==
  { [recipe |-> 1, feedback_type |-> "good", original_data |-> <<"EVOO">>,
     cleaned_data |-> <<"olive oil">>, user_corrections |-> NoCorrections],
    [recipe |-> 1, feedback_type |-> "good", original_data |-> <<"EVOO">>,
     cleaned_data |-> <<"EVOO">>,
     user_corrections |-> [present |-> TRUE, names |-> <<"olive oil">>]],
    [recipe |-> 1, feedback_type |-> "needs_improvement",
     original_data |-> <<"EVOO", "salt", "pepper">>,
     cleaned_data |-> <<"EVOO", "salt", "pepper">>,
     user_corrections |-> [present |-> TRUE, names |-> <<"olive oil", "salt">>]],
    [recipe |-> 1, feedback_type |-> "needs_improvement",
     original_data |-> <<"EVOO", "salt">>,
     cleaned_data |-> <<"EVOO", "salt">>,
     user_corrections |-> [present |-> TRUE, names |-> <<"salt", "EVOO">>]],
    [recipe |-> 1, feedback_type |-> "needs_improvement",
     original_data |-> <<NoName>>, cleaned_data |-> <<NoName>>,
     user_corrections |-> [present |-> TRUE, names |-> <<"salt">>]],
    [recipe |-> 1, feedback_type |-> "needs_improvement",
     original_data |-> <<NoName>>, cleaned_data |-> <<NoName>>,
     user_corrections |-> [present |-> TRUE, names |-> <<"">>]],
    [recipe |-> 1, feedback_type |-> "needs_improvement",
     original_data |-> <<"EVOO">>, cleaned_data |-> <<"EVOO">>,
     user_corrections |-> NoCorrections] }

\* a caller of get_similar_examples(recipe_data, limit)
CallExamples ==
  /\ \E limit \in 1..ExamplesLimit :
       probe' = [fn |-> "get_similar_examples", limit |-> limit,
                 result |-> get_similar_examples(feedback, limit)]
  /\ UNCHANGED <<recipes, feedback>>
  /\ UNCHANGED views_frame

\* steps 2 and 3 of clean_recipe: generate_prompt on the examples of
\* get_similar_examples(recipe_data)
CallPrompt ==
  /\ \E p \in Procs :
       probe' = [fn |-> "generate_prompt",
                 result |-> generate_prompt(
                              get_similar_examples(feedback, ExamplesLimit), p)]
  /\ UNCHANGED <<recipes, feedback>>
  /\ UNCHANGED views_frame

\* a caller of discover_patterns(min_occurrences)
CallDiscover ==
  /\ \E m \in 1..MinOccurrences :
       probe' = [fn |-> "discover_patterns", min_occurrences |-> m,
                 result |-> discover_patterns(feedback, m)]
  /\ UNCHANGED <<recipes, feedback>>
  /\ UNCHANGED views_frame

InitAnalyzer ==
  /\ rules = <<>>
  /\ recipes = {1}
  /\ feedback \in ListsUpTo(AnalyzerRows, MaxRows)
  /\ NothingRunning

\* Calls of the Feedback Analyzer on a feedback table
NextAnalyzer == CallExamples \/ CallPrompt \/ CallDiscover

SpecAnalyzer == InitAnalyzer /\ [][NextAnalyzer]_vars

\* ------------------------------------------------- rule store edits
MaxDeactivations == 1

\* is_active = models.BooleanField(default=True): the flag load_rules
\* filters on is cleared on the stored row
SetInactive(store, r) == [store EXCEPT ![r].is_active = FALSE]

\* no rule pass is running: every invocation is over or waits for the
\* backend in its cleaner call
EditWindow ==
  \A q \in Procs : pc[q] \in {"idle", "returned", "ai_clean", "seed_get",
                               "seed_create"}

\* an operator of the Rule Store deactivates a rule; no method of the
\* cleaner writes is_active
Deactivate ==
  /\ EditWindow
  /\ Cardinality({r \in RuleIds : ~rules[r].is_active}) < MaxDeactivations
  /\ \E r \in RuleIds :
       /\ rules[r].is_active
       /\ rules' = SetInactive(rules, r)
  /\ UNCHANGED <<engineRules, system_prompt, feedback, invocations, faults,
                 pc, heap, recipe_data, original_data, work, iter, cat,
                 saved_prompt, enhanced, ret, input0, fallback_in, ai_prompt,
                 dirty, direct, tried, log, plan, learn, ops, covered,
                 recipes, probe>>

\* p is the one caller of clean_recipe: no other worker calls it
OnlyCaller(p) == \A q \in Procs \ {p} : pc[q] = "idle"

\* views.get_cleaning_stats: if CleaningRule.objects.count() == 0:
\* initialize_default_rules()
StatsSeed(p) == Len(rules) = 0 /\ SeedStart(p)

InitEdit ==
  /\ rules \in {<<>>} \cup RuleStores
  /\ recipes = {1}
  /\ feedback = <<>>
  /\ NothingRunning

\* clean_recipe invocations of one caller on one AdaptiveRecipeCleaner
\* while, between them and during their cleaner
\* calls, rules are seeded by get_cleaning_stats and deactivated
NextEdit ==
  \/ \E p \in Procs : OnlyCaller(p) /\ Step(p)
  \/ \E p \in Procs :
       EditWindow /\ (StatsSeed(p) \/ SeedGet(p) \/ SeedCreate(p))
  \/ Deactivate

SpecEdit == InitEdit /\ [][NextEdit]_vars

\* ----------------------------------------------------------------- claims
\* the recipe the direct call of the Semantic Cleaner (enable_adaptive =
\* False, or the fallback) was given
DirectInput(p) ==
  IF fallback_in[p].taken THEN fallback_in[p].recipe ELSE input0[p]

\* C1: clean_recipe never lets an exception reach its caller, whatever stage
\* fails: no invocation ever stands at an uncaught exception, every
\* invocation in flight has a next step, and a finished one holds the pair
\* (cleaned, original_data).
C1_NeverRaises ==
  \A p \in Procs :
    /\ pc[p] \in {"idle", "plain", "pre_general", "examples", "save_prompt",
                  "set_prompt", "ai_clean", "restore_prompt", "post_load",
                  "post_general", "post_category", "post_done", "fallback",
                  "returned"}
    /\ pc[p] \in RulePcs => iter[p] # <<>>
    /\ pc[p] = "returned" => ret[p].original = original_data[p]

\* a stage failed, and the Semantic Cleaner failed again on every call of
\* the fallback; the invocation returned all the same
C1_Witness ==
  \E p \in Procs :
    /\ pc[p] = "returned"
    /\ fallback_in[p].taken
    /\ direct[p].made /\ ~direct[p].desc /\ ~direct[p].ing /\ ~direct[p].inst

C3_FallbackOnSnapshot ==
  \A p \in Procs :
    fallback_in[p].taken
    => /\ fallback_in[p].recipe = Deref(original_data[p], heap[p])
       /\ ret[p].original = original_data[p]

\* C4: the second element of the returned pair equals the input as it was
\* when the invocation started.
C4_OriginalIsInput ==
  \A p \in Procs :
    pc[p] = "returned" => Deref(ret[p].original, heap[p]) = input0[p]

\* the invocation rewrote the caller's ingredients list in place before it
\* returned
C4_Witness ==
  \E p \in Procs :
    /\ pc[p] = "returned"
    /\ heap[p]["c_ing"] # input0[p].ingredients
    /\ Deref(ret[p].original, heap[p]) = input0[p]

\* C5: once no invocation is running, the Semantic Cleaner's system prompt
\* is the default prompt again, and the cleaner call of a fallback ran under
\* the default prompt.
C5_PromptRestored ==
  /\ (\A p \in Procs : pc[p] \in {"idle", "returned"})
       => system_prompt = DefaultPrompt
  /\ \A p \in Procs : fallback_in[p].taken => fallback_in[p].prompt = DefaultPrompt

\* C6: a step-4 cleaner call runs under a prompt other than the override its
\* own invocation installed only if another invocation wrote system_prompt
\* between that installation and the call.
C6_ForeignPromptOnlyByOverlap ==
  \A p \in Procs :
    pc[p] = "restore_prompt" => (ai_prompt[p] = enhanced[p] \/ dirty[p])

\* the step-4 cleaner call of one invocation ran under the override of the
\* other
C6_Witness ==
  \E p \in Procs :
    /\ pc[p] = "restore_prompt"
    /\ ai_prompt[p].by \in Procs \ {p}
    /\ enhanced[p].by = p

\* C7: the counters of a rule never decrease, and an attempt to apply a rule
\* raises exactly one of them by exactly 1: success_count when the attempt
\* raised nothing, failure_count when the pattern did not compile or the
\* application raised.  No other step changes a counter.
C7_OneCounterPerAttempt ==
  [][\A r \in RuleIds :
       LET ds == rules'[r].success_count - rules[r].success_count
           df == rules'[r].failure_count - rules[r].failure_count
       IN /\ ds = tried'[r].ok - tried[r].ok
          /\ df = tried'[r].failed - tried[r].failed
          /\ <<ds, df>> \in {<<0, 0>>, <<1, 0>>, <<0, 1>>}]_vars

\* one rule has been counted a failure and another a success
C7_Witness ==
  \E r, q \in RuleIds :
    /\ rules[r].failure_count > 0 /\ rules[r].success_count = 0
    /\ rules[q].success_count > 0 /\ rules[q].failure_count = 0

\* C8: whatever the interleaving of invocations, the sum of a rule's two
\* counters is the number of attempts made on it: no increment is lost.
C8_NoLostUpdate ==
  \A r \in RuleIds :
    rules[r].success_count + rules[r].failure_count
      = tried[r].ok + tried[r].failed

\* two invocations stand in their post-passes at the same time, and both
\* have attempted the same rule
C8_Witness ==
  \E r \in RuleIds :
    \A p \in Procs :
      /\ pc[p] \in {"post_general", "post_category"}
      /\ \E i \in 1..Len(log[p]) : log[p][i].id = r

\* C9: a rule whose application fails does not end the batch: the failure
\* is counted, the exception does not leave apply_rules, and the rules
\* attempted so far followed by the rules still in turn are the rules the
\* loops were given.
C9_BatchGoesOn ==
  \A p \in Procs :
    /\ pc[p] \notin {"fallback", "raised"}
    /\ [i \in 1..Len(log[p]) |-> [id |-> log[p][i].id, cat |-> log[p][i].cat]]
         \o Entries(iter[p], cat[p]) = plan[p]
    /\ \A i \in 1..Len(log[p]) :
         log[p][i].raised => rules[log[p][i].id].failure_count > 0

\* a rule failed and a later rule of the same apply_rules call was
\* attempted
C9_Witness ==
  \E p \in Procs :
    \E i, j \in 1..Len(log[p]) :
      /\ i < j
      /\ log[p][i].raised
      /\ log[p][i].cat = log[p][j].cat
      /\ log[p][i].id # log[p][j].id

\* C10: a rule that failed in a pass is not attempted again in that pass.
C10_FailedRuleNotRetried ==
  \A p \in Procs :
    \A i, j \in 1..Len(log[p]) :
      (i < j /\ log[p][i].raised) => log[p][j].id # log[p][i].id

\* C11: applying an active general rule substitutes its pattern into every
\* ingredient's name and quantity, every instruction's description and the
\* top-level description, as an ingredient, an instruction and a description
\* rule with the same pattern and replacement would together.
C11_GeneralIsUnion ==
  [][\A p \in Procs :
       (/\ Len(log'[p]) = Len(log[p]) + 1
        /\ Head(iter[p]).category = "general"
        /\ ~log'[p][Len(log'[p])].raised)
       => LET g == Head(iter[p])
              a == ApplyRuleToData(work[p], heap[p],
                                   [g EXCEPT !.category = "ingredient"])
              b == ApplyRuleToData(a.data, a.heap,
                                   [g EXCEPT !.category = "instruction"])
              c == ApplyRuleToData(b.data, b.heap,
                                   [g EXCEPT !.category = "description"])
          IN work'[p] = c.data /\ heap'[p] = c.heap]_vars

\* C12: when a rule of the requested category is about to be matched, every
\* general rule that ran without error earlier in that apply_rules call has
\* already had its substitution applied, so it has nothing left to
\* substitute in the recipe.
C12_GeneralAppliedBeforeCategory ==
  \A p \in Procs :
    (pc[p] = "post_category" /\ iter[p] # <<>>)
    => \A i \in 1..Len(log[p]) :
         (log[p][i].cat = cat[p] /\ ~log[p][i].raised
            /\ rules[log[p][i].id].category = "general")
         => LET g == [id |-> log[p][i].id,
                      pattern |-> rules[log[p][i].id].pattern,
                      replacement |-> rules[log[p][i].id].replacement,
                      category |-> "general"]
                a == ApplyRuleToData(work[p], heap[p],
                                     [g EXCEPT !.category = "ingredient"])
                b == ApplyRuleToData(a.data, a.heap,
                                     [g EXCEPT !.category = "instruction"])
                c == ApplyRuleToData(b.data, b.heap,
                                     [g EXCEPT !.category = "description"])
            IN work[p] = c.data /\ heap[p] = c.heap

\* C13: an attempt of an ingredient rule changes nothing but the name and
\* the quantity of the ingredients (both substituted in every ingredient
\* when the attempt raises nothing), an instruction rule nothing but the
\* description of the instructions, a description rule nothing but the
\* top-level description.
C13_CategoryIsolation ==
  [][\A p \in Procs :
       Len(log'[p]) = Len(log[p]) + 1
       => LET obj == Head(iter[p])
              ok  == ~log'[p][Len(log'[p])].raised
              d   == work[p]
              old == heap[p]
              new == heap'[p]
          IN /\ obj.category = "ingredient" =>
                  /\ work'[p] = d
                  /\ \A r \in Refs \ {d.ing} : new[r] = old[r]
                  /\ Len(new[d.ing]) = Len(old[d.ing])
                  /\ ok => \A i \in 1..Len(old[d.ing]) :
                             /\ new[d.ing][i].name
                                  = PatternSub(obj, old[d.ing][i].name)
                             /\ new[d.ing][i].quantity
                                  = PatternSub(obj, PyStr(old[d.ing][i].quantity))
             /\ obj.category = "instruction" =>
                  /\ work'[p] = d
                  /\ \A r \in Refs \ {d.inst} : new[r] = old[r]
                  /\ Len(new[d.inst]) = Len(old[d.inst])
                  /\ \A i \in 1..Len(old[d.inst]) :
                       /\ new[d.inst][i].order = old[d.inst][i].order
                       /\ ok => new[d.inst][i].description
                                  = PatternSub(obj, old[d.inst][i].description)
             /\ obj.category = "description" =>
                  /\ new = old
                  /\ work'[p] = [d EXCEPT !.description = work'[p].description]
                  /\ ok => work'[p].description = PatternSub(obj, d.description)]_vars

\* an ingredient rule has rewritten a quantity and an instruction rule a
\* step, while the description still reads as the backend left it
C13_Witness ==
  \E p \in Procs :
    /\ pc[p] = "post_category" /\ Categories[cat[p]] = "description"
    /\ heap[p][work[p].ing] # <<>>
    /\ heap[p][work[p].ing][1].quantity = Str(<<"2", "tbsp">>)
    /\ heap[p][work[p].inst][1].description = Str(<<"Preheat", "oven">>)
    /\ work[p].description = Str(<<"Tasty", "cake">>)

\* C14 as stated: of the feedback rows a discover_patterns call scanned, a
\* (original name, corrected name) pair found in exactly 2 qualifying rows
\* yields no candidate and a pair found in exactly 3 rows yields exactly one
\* candidate (escaped original, corrected, 'ingredient').
C14_ThresholdByEntries ==
  \A p \in Procs :
    learn[p].called =>
      LET fb    == SubSeq(feedback, 1, learn[p].fb_len)
          diffs == AllDiffs(fb)
      IN \A x \in 1..Len(diffs) :
           LET k == diffs[x]
               n == Cardinality({j \in 1..Len(fb) :
                       /\ Qualifies(fb[j])
                       /\ \E i \in 1..Len(RowDiffs(fb[j])) : RowDiffs(fb[j])[i] = k})
               c == {i \in 1..Len(learn[p].found) :
                       learn[p].found[i] = [pattern |-> Escape(k[1]),
                                            replacement |-> <<k[2]>>,
                                            category |-> "ingredient"]}
           IN /\ n = 2 => c = {}
              /\ n = 3 => Cardinality(c) = 1

\* C14 amended: the threshold counts positions, not rows: a pair that
\* differs at exactly 2 ingredient positions over the qualifying rows yields
\* no candidate, a pair that differs at exactly 3 positions yields exactly
\* one candidate (escaped original, corrected, 'ingredient').
C14_ThresholdByPositions ==
  \A p \in Procs :
    (learn[p].called /\ ~learn[p].failed) =>
      LET fb    == SubSeq(feedback, 1, learn[p].fb_len)
          diffs == AllDiffs(fb)
      IN \A x \in 1..Len(diffs) :
           LET k == diffs[x]
               c == {i \in 1..Len(learn[p].found) :
                       learn[p].found[i] = [pattern |-> Escape(k[1]),
                                            replacement |-> <<k[2]>>,
                                            category |-> "ingredient"]}
           IN /\ Count(diffs, k) = 2 => c = {}
              /\ Count(diffs, k) = 3 => Cardinality(c) = 1

\* a call found one candidate for a pair counted 3 times over 2 rows
C14_Witness ==
  \E p \in Procs :
    /\ learn[p].called /\ ~learn[p].failed
    /\ learn[p].fb_len = 2
    /\ Count(AllDiffs(SubSeq(feedback, 1, 2)), <<"EVOO", "olive oil">>) = 3
    /\ Len(learn[p].found) = 1

\* C15: a learn_from_feedback call that begins after another call has
\* returned its rules for the same feedback rows never reaches the insert:
\* it creates no rule and returns no rule.
C15_SecondCallCreatesNothing ==
  \A p \in Procs :
    learn[p].again
    => /\ pc[p] # "learn_create"
       /\ learn[p].new_rules = <<>>
       /\ learn[p].result = <<>>

\* the second call found a pattern, the rule made from it by the earlier
\* call is in the store, and the call has returned an empty list
C15_Witness ==
  \E p \in Procs :
    /\ learn[p].again /\ ~learn[p].failed
    /\ pc[p] = "idle"
    /\ learn[p].found # <<>>
    /\ Cardinality(Matching(rules, learn[p].found[1])) = 1
    /\ learn[p].result = <<>>

\* C16: the Rule Store never holds two rows with the same (pattern,
\* replacement, category).
C16_OneRowPerTriple ==
  \A i, j \in 1..Len(rules) :
    (/\ rules[i].pattern = rules[j].pattern
     /\ rules[i].replacement = rules[j].replacement
     /\ rules[i].category = rules[j].category) => i = j

\* C17: a finished submission tagged needs_improvement that carries
\* corrections called learn_from_feedback after its row was stored, and,
\* the store having answered, every pattern that the rows up to and
\* including its own bring to min_occurrences has a rule in the store; a
\* finished submission tagged good or without corrections did not call
\* learn_from_feedback and created no rule.
C17_LearnsSynchronously ==
  \A p \in Procs :
    (learn[p].op = "submit" /\ pc[p] = "idle")
    => LET row   == feedback[learn[p].row]
           upto  == SubSeq(feedback, 1, learn[p].row)
           cands == discover_patterns(upto, MinOccurrences)
       IN IF row.feedback_type = "needs_improvement"
             /\ row.user_corrections.present
          THEN /\ learn[p].called
               /\ faults = 0 =>
                    /\ learn[p].fb_len >= learn[p].row
                    /\ \A i \in 1..Len(cands) : Matching(rules, cands[i]) # {}
          ELSE /\ ~learn[p].called
               /\ learn[p].new_rules = <<>>

\* a submission brought a pair from 2 to 3 occurrences and returned after
\* creating the rule
C17_Witness ==
  \E p \in Procs :
    /\ learn[p].op = "submit" /\ pc[p] = "idle" /\ faults = 0
    /\ discover_patterns(SubSeq(feedback, 1, learn[p].row - 1),
                         MinOccurrences) = <<>>
    /\ discover_patterns(SubSeq(feedback, 1, learn[p].row),
                         MinOccurrences) # <<>>
    /\ Len(learn[p].new_rules) = 1
    /\ rules[learn[p].new_rules[1]].pattern = Escape("EVOO")

\* C18: learn_from_feedback never lets an exception reach its caller; it
\* returns the rules it created, or an empty list when one of its steps
\* failed.
C18_LearnNeverRaises ==
  \A p \in Procs :
    /\ pc[p] # "learn_raised"
    /\ (learn[p].op \in {"submit", "learn"} /\ learn[p].called /\ pc[p] = "idle")
       => learn[p].result = IF learn[p].failed THEN <<>> ELSE learn[p].new_rules
    /\ learn[p].op \in {"submit", "learn"}
       => \A i \in 1..Len(learn[p].new_rules) :
            \E k \in 1..Len(learn[p].found) :
              learn[p].new_rules[i] \in Matching(rules, learn[p].found[k])

\* a call whose step failed has returned an empty list
C18_Witness ==
  \E p \in Procs :
    /\ learn[p].op = "learn" /\ pc[p] = "idle"
    /\ learn[p].failed
    /\ learn[p].found # <<>>
    /\ learn[p].result = <<>>

\* C19: the result of the Semantic Cleaner's clean_recipe carries every key
\* other than title, description, ingredients and instructions with the
\* value it has in the input, whatever the backend does.
C19_OtherKeysKept ==
  \A p \in Procs :
    /\ (pc[p] = "returned" /\ direct[p].made)
         => Deref(ret[p].cleaned, heap[p]).others = DirectInput(p).others
    /\ pc[p] \in {"restore_prompt", "post_load", "post_general",
                  "post_category", "post_done"}
         => work[p].others = input0[p].others

\* the backend answered every call, the description came back rewritten and
\* the source URL and the servings are the input's
C19_Witness ==
  \E p \in Procs :
    /\ pc[p] = "returned"
    /\ direct[p].made /\ direct[p].desc /\ direct[p].ing /\ direct[p].inst
    /\ Deref(ret[p].cleaned, heap[p]).description # DirectInput(p).description
    /\ DirectInput(p).others.source_url # Str(<<>>)
    /\ Deref(ret[p].cleaned, heap[p]).others = DirectInput(p).others

\* C20: no step of the pipeline or of the learning loop removes a rule row
\* or changes the pattern, the replacement or the category of one.
C20_RulesImmutable ==
  [][/\ Len(rules') >= Len(rules)
     /\ \A i \in 1..Len(rules) :
          /\ rules'[i].pattern = rules[i].pattern
          /\ rules'[i].replacement = rules[i].replacement
          /\ rules'[i].category = rules[i].category]_vars

\* learn_from_feedback has added a rule behind the rows of a store that held
\* some, one of which the pipeline's rule passes count on
C20_Witness ==
  \E p \in Procs :
    /\ learn[p].op \in {"submit", "learn"}
    /\ learn[p].result # <<>>
    /\ \E k \in 1..Len(learn[p].result) :
         /\ learn[p].result[k] > 1
         /\ rules[learn[p].result[k]].pattern = Escape("EVOO")
    /\ rules[1].category = "general"

\* C21: no step modifies or removes a feedback row, so the count
\* discover_patterns computes for a correction pair never decreases.
C21_FeedbackWriteOnce ==
  [][/\ Len(feedback') >= Len(feedback)
     /\ \A i \in 1..Len(feedback) : feedback'[i] = feedback[i]
     /\ \A i \in 1..Len(AllDiffs(feedback)) :
          Count(AllDiffs(feedback'), AllDiffs(feedback)[i])
            >= Count(AllDiffs(feedback), AllDiffs(feedback)[i])]_vars

\* C22: a scrape requested with cleaning enabled that returns a recipe
\* returns the output of the cleaning pipeline, with the snapshot under
\* _original_data.
C22_ScrapedRecipeIsCleaned ==
  (probe.fn = "scrape_recipe" /\ probe.enable_cleaning /\ ~probe.result.raised)
    => /\ probe.result.cleaner_calls = 1
       /\ probe.result.has_original

\* C28: the instructions of the recipe the Semantic Cleaner returns are
\* numbered 1..n in list order, whatever steps the backend returned.
C28_OrderDense ==
  probe.fn = "clean_recipe"
    => \A i \in 1..Len(probe.result.instructions) :
         probe.result.instructions[i].order = i

\* C23: get_similar_examples(limit) returns the snapshot pairs of the
\* min(limit, number of good rows) most recently created rows tagged good,
\* the most recent first, and the prompt built from them holds the pairs of
\* the (at most) 3 most recent ones.
C23_ExamplesNewestGood ==
  LET G == {i \in 1..Len(feedback) : feedback[i].feedback_type = "good"}
      NewestGood(res, limit) ==
        /\ Len(res) <= limit
        /\ Len(res) = IF Cardinality(G) < limit THEN Cardinality(G) ELSE limit
        /\ \A k \in 1..Len(res) :
             \E j \in G :
               /\ Cardinality({i \in G : i > j}) = k - 1
               /\ res[k] = [before |-> feedback[j].original_data,
                            after |-> feedback[j].cleaned_data]
  IN /\ probe.fn = "get_similar_examples"
          => NewestGood(probe.result, probe.limit)
     /\ probe.fn = "generate_prompt"
          => NewestGood(probe.result.examples, 3)

\* four rows tagged good and a prompt with three examples that are not all
\* the same
C23_Witness ==
  /\ probe.fn = "generate_prompt"
  /\ Cardinality({i \in 1..Len(feedback) : feedback[i].feedback_type = "good"}) = 4
  /\ feedback[1] # feedback[4]
  /\ Len(probe.result.examples) = 3
  /\ probe.result.examples[1] # probe.result.examples[2]

\* C24: when the pre-pass of an adaptive invocation is over and the
\* Semantic Cleaner is about to be called, every active rule of each of the
\* four categories has been attempted once on the recipe.
C24_PrePassAllCategories ==
  \A p \in Procs :
    pc[p] \in {"examples", "save_prompt", "set_prompt", "ai_clean"}
      => \A r \in RuleIds :
           rules[r].is_active
             => Cardinality({k \in 1..Len(log[p]) : log[p][k].id = r}) = 1

\* C29: when a post_process call is over, every active rule of any
\* category has been attempted exactly once in it.
C29_PostPassOncePerRule ==
  \A p \in Procs :
    pc[p] = "post_done"
      => \A r \in RuleIds :
           rules[r].is_active
             => Cardinality({k \in 1..Len(log[p]) : log[p][k].id = r}) = 1

\* C27: discover_patterns(m) returns exactly one candidate (escaped o, c,
\* 'ingredient') for each pair of different names (o, c) that stands at the
\* same index of the original and of the corrected ingredients at least m
\* times over the rows tagged needs_improvement that carry corrections, and
\* nothing else.  An ingredient without a name is taken to have the empty
\* name.
C27_ExactlyThePairsAbove ==
  probe.fn = "discover_patterns"
    => LET res == probe.result
           Names == {"EVOO", "olive oil", "salt", "pepper", ""}
           At(o, c) ==
             {<<r, i>> \in (1..Len(feedback)) \X (1..3) :
                /\ feedback[r].feedback_type = "needs_improvement"
                /\ feedback[r].user_corrections.present
                /\ i <= Len(feedback[r].original_data)
                /\ i <= Len(feedback[r].user_corrections.names)
                /\ NameOr(feedback[r].original_data[i]) = o
                /\ NameOr(feedback[r].user_corrections.names[i]) = c}
           Expected ==
             {[pattern |-> Escape(o), replacement |-> <<c>>,
               category |-> "ingredient"] :
                <<o, c>> \in {x \in Names \X Names :
                                /\ x[1] # x[2]
                                /\ Cardinality(At(x[1], x[2]))
                                     >= probe.min_occurrences}}
       IN /\ {res[k] : k \in 1..Len(res)} = Expected
          /\ Len(res) = Cardinality(Expected)

\* C30: every candidate discover_patterns returns has a pattern that is not
\* empty.
C30_PatternNotEmpty ==
  probe.fn = "discover_patterns"
    => \A k \in 1..Len(probe.result) :
         probe.result[k].pattern # Escape("")

\* C25: the pre-pass of an invocation attempts no rule that was inactive
\* in the Rule Store when the invocation started, and attempts every general
\* rule that was active then.  (The Rule Store is not edited while a
\* pre-pass runs.)
C25_PrePassUsesStoredRules ==
  \A p \in Procs :
    pc[p] \in {"examples", "save_prompt", "set_prompt"}
      => /\ \A k \in 1..Len(log[p]) : rules[log[p][k].id].is_active
         /\ \A r \in RuleIds :
              (rules[r].is_active /\ rules[r].category = "general")
                => \E k \in 1..Len(log[p]) : log[p][k].id = r

\* C26: the post-pass works on the rules that were active when the cleaner
\* call had returned: at its end the rules attempted in it are the active
\* rules of the Rule Store, those created during the cleaner call included
\* and those deactivated by then excluded; the apply_rules calls follow the
\* order general, ingredient, instruction, description, each running the
\* rules of its category after the general ones.  (The Rule Store is not
\* edited while a post-pass runs.)
C26_PostPassReloads ==
  \A p \in Procs :
    pc[p] = "post_done"
      => /\ {log[p][k].id : k \in 1..Len(log[p])}
              = {r \in RuleIds : rules[r].is_active}
         /\ \A r \in RuleIds :
              rules[r].is_active
                => \E k \in 1..Len(log[p]) :
                     /\ log[p][k].id = r
                     /\ Categories[log[p][k].cat] = rules[r].category
         /\ \A i, j \in 1..Len(log[p]) :
              i < j => /\ log[p][i].cat <= log[p][j].cat
                       /\ (/\ log[p][i].cat = log[p][j].cat
                           /\ rules[log[p][j].id].category = "general"
                           /\ log[p][j].cat # 1)
                            => rules[log[p][i].id].category = "general"
         /\ \A k \in 1..Len(log[p]) :
              rules[log[p][k].id].category
                \in {"general", Categories[log[p][k].cat]}

\* the first invocation ends its post-pass: the rules were seeded while it
\* stood in its cleaner call, one of them was deactivated before the call
\* returned, the other has been attempted
C26_Witness ==
  \E p \in Procs, q \in Procs :
    /\ pc[p] = "post_done"
    /\ invocations = 1
    /\ learn[q].op = "seed"
    /\ p \in learn[q].during
    /\ \E r \in RuleIds :
         /\ \E n \in 1..Len(learn[q].result) : learn[q].result[n] = r
         /\ rules[r].is_active
         /\ \E k \in 1..Len(log[p]) : log[p][k].id = r
    /\ \E r \in RuleIds :
         /\ ~rules[r].is_active
         /\ \A k \in 1..Len(log[p]) : log[p][k].id # r

====
